---- MODULE Spec2Model ----
(***************************************************************************)
(* State machine of SVTAppWindow (src/svt.py): the frame sequence, the     *)
(* frame slider, the layer selector, the play timer, the GIF recorder and  *)
(* the height map, driven by the window's Qt slots.                        *)
(*                                                                         *)
(* A slot that opens a modal dialog (openLoadDir, toggleOutputGif) blocks  *)
(* in the dialog's nested event loop: the play timer keeps firing there,   *)
(* the other widgets take no input.  Such a slot is two steps, joined by   *)
(* pc.  An exception that reaches a slot boundary is reported there (err)  *)
(* and the event loop goes on (PyQt5 before 5.5, or any sys.excepthook).   *)
(* A build that ends the process there (qFatal) has the same states up to  *)
(* the first report and none after it, so its runs are prefixes of these.  *)
(***************************************************************************)
EXTENDS Integers, Sequences

\* ----- bounds of the model -----
MaxFiles == 2           \* most files in a directory
MaxSkip  == 2           \* largest "Advance frames" value the user enters
MaxGif   == 4           \* most frames appended to one output animation

\* ----- program constants -----
SliderDefaultMax == 99  \* QSlider() range before the first setRange
DefaultFPS       == 60
DefaultSkip      == 1
NoIndex          == -1  \* QComboBox currentIndex with no current item
ButtonChecked    == 0   \* clicked(checked=False) of a non-checkable button, as an int
NoStartFrame     == -1

VARIABLES
    meshes,         \* self.meshes: sequence of frames (file, mesh)
    meshfiles,      \* self.meshfiles
    v2h,            \* self.v2h
    playing,        \* self.playing
    outputGif,      \* self.outputGif
    sliderMax,      \* frameSlider.maximum() (the minimum is always 0)
    sliderVal,      \* frameSlider.value()
    layers,         \* layerSelector items
    layerIdx,       \* layerSelector.currentIndex()
    skip,           \* skipFrames.value()
    fps,            \* FPSPicker.value()
    timerActive,    \* timer.isActive()
    gifOpen,        \* self.bgPlotter has a GIF writer open
    gif,            \* number of frames self.bgPlotter has written
    pc,             \* "idle", the modal dialog a slot is blocked in, or "closed"
    err,            \* exception reported by the last slot, or "none"
    op,             \* the last slot that ran
    rendered,       \* calls of display() made by the last slot, in order
    recPure,        \* recording was enabled at index 0 and only play/pause and ticks ran since
    recSeen,        \* while recPure: the indices of the frames displayed since
    recTicks        \* while recPure: the timer ticks since

vars == <<meshes, meshfiles, v2h, playing, outputGif, sliderMax, sliderVal, layers,
          layerIdx, skip, fps, timerActive, gifOpen, gif, pc, err, op,
          rendered, recPure, recSeen, recTicks>>

\* ----- file names -----
DigitChar == <<"0", "1", "2", "3", "4", "5", "6", "7", "8", "9">>

RECURSIVE Decimal(_)
Decimal(n) == IF n < 10 THEN <<DigitChar[n + 1]>>
              ELSE Decimal(n \div 10) \o <<DigitChar[(n % 10) + 1]>>

Ext == <<".", "v", "t", "u">>

\* The k-th mesh file of a calculation: "5.vtu", "10.vtu", "15.vtu", ...
FileName(k) == Decimal(5 * k) \o Ext
BadName     == <<"x">> \o Ext

\* os.path.splitext(e)[0]: the name up to its last dot, when a non-dot precedes it
SplitExtRoot(e) ==
    LET dots == {i \in 1..Len(e) : e[i] = "."}
        last == CHOOSE i \in dots : \A j \in dots : j <= i
    IN IF dots = {} THEN e
       ELSE IF \E i \in 1..(last - 1) : e[i] # "." THEN SubSeq(e, 1, last - 1)
       ELSE e

DigitValue(c) == CHOOSE d \in 0..9 : DigitChar[d + 1] = c

RECURSIVE DecimalValue(_)
DecimalValue(s) == IF s = <<>> THEN 0
                   ELSE 10 * DecimalValue(SubSeq(s, 1, Len(s) - 1)) + DigitValue(s[Len(s)])

\* float(s) on the names of this model: a digit string is its value, anything else raises
PyFloat(s) ==
    IF s # <<>> /\ \A i \in 1..Len(s) : \E d \in 0..9 : DigitChar[d + 1] = s[i]
    THEN [ok |-> TRUE, val |-> DecimalValue(s)]
    ELSE [ok |-> FALSE, val |-> 0]

SortKey(f) == PyFloat(SplitExtRoot(f.name))

\* sorted(listing, key=...): stable, ascending
RECURSIVE InsertSorted(_, _)
InsertSorted(s, f) ==
    IF s = <<>> THEN <<f>>
    ELSE IF SortKey(s[Len(s)]).val <= SortKey(f).val THEN Append(s, f)
    ELSE Append(InsertSorted(SubSeq(s, 1, Len(s) - 1), f), s[Len(s)])

\* the listing as the directory gave it, unsorted
AsListed(s) == s

RECURSIVE Sorted(_)
Sorted(s) == IF s = <<>> THEN <<>>
             ELSE InsertSorted(Sorted(SubSeq(s, 1, Len(s) - 1)), s[Len(s)])

\* ----- directories the user can pick -----
CellLayers == <<"p", "q">>

MeshFile(k, readable) == [name |-> FileName(k), ok |-> readable, layers |-> CellLayers]

\* os.listdir gives no order: the listing here is the reverse of the numeric order
Listing(n, bad) == [i \in 1..n |-> MeshFile(n + 1 - i, (n + 1 - i) # bad)]

Dirs ==
    {[path |-> <<"ok", n>>, listable |-> TRUE, entries |-> Listing(n, 0)] : n \in 0..MaxFiles}
    \cup {[path |-> <<"corrupt", n>>, listable |-> TRUE, entries |-> Listing(n, n)] : n \in {MaxFiles}}
    \cup {[path |-> <<"badname", 1>>, listable |-> TRUE,
           entries |-> <<[name |-> BadName, ok |-> TRUE, layers |-> CellLayers], MeshFile(1, TRUE)>>]}
    \cup {[path |-> <<"denied", 0>>, listable |-> FALSE, entries |-> <<>>]}

\* ----- rendering -----
OrigZ == [src |-> "orig", field |-> ""]
ZeroZ == [src |-> "zero", field |-> ""]
FieldZ(name) == [src |-> "field", field |-> name]

\* pv.read(path)
PvRead(f) == [file |-> f.name, layers |-> f.layers, z |-> OrigZ]

Shown(fr, scal) == [file |-> fr.file, z |-> fr.z, scalars |-> scal]

\* layerSelector.currentText()
CurrentText(ls, i) == IF i >= 0 /\ i < Len(ls) THEN ls[i + 1] ELSE ""

\* The part of the window a slot changes while it renders; exc is the exception
\* in flight, err the last one reported.
Work == [val |-> sliderVal, gif |-> gif, rendered |-> <<>>,
         seen |-> {}, exc |-> "none", err |-> "none"]

Raise(w, e) == [w EXCEPT !.exc = e]

HasLayer(fr, scal) == \E i \in 1..Len(fr.layers) : fr.layers[i] = scal

\* display(mesh, text): add_mesh raises on scalars the mesh does not carry,
\* write_frame on a plotter with no GIF opened
Display(w, fr, scal) ==
    IF ~HasLayer(fr, scal) THEN Raise(w, "KeyError")
    ELSE IF outputGif /\ ~gifOpen THEN Raise(w, "RuntimeError")
    ELSE [w EXCEPT !.gif = IF outputGif THEN @ + 1 ELSE @,
                   !.rendered = Append(@, Shown(fr, scal))]

\* displayLocal()
DisplayLocal(w, ms, scal) ==
    IF ms = <<>> THEN w
    ELSE IF w.val >= Len(ms) THEN Raise(w, "IndexError")
    ELSE Display([w EXCEPT !.seen = @ \cup {w.val}], ms[w.val + 1], scal)

\* An exception leaving a slot that Qt called is reported and goes no further
AtSlotBoundary(w) ==
    IF w.exc = "none" THEN w ELSE [w EXCEPT !.err = w.exc, !.exc = "none"]

Bound(v, mx) == IF v < 0 THEN 0 ELSE IF v > mx THEN mx ELSE v

\* frameSlider.setValue(v): valueChanged -> displayLocal when the value changes
SetValue(w, v, mx, ms, scal) ==
    IF w.exc # "none" \/ Bound(v, mx) = w.val THEN w
    ELSE AtSlotBoundary(DisplayLocal([w EXCEPT !.val = Bound(v, mx)], ms, scal))

\* frameSlider.setRange(0, hi): the maximum is never below the minimum; a changed
\* range re-bounds the value
RangeMax(hi) == IF hi < 0 THEN 0 ELSE hi
SetRange(w, oldMax, hi, ms, scal) ==
    IF RangeMax(hi) = oldMax THEN w
    ELSE SetValue(w, w.val, RangeMax(hi), ms, scal)

\* What a slot leaves behind: its own exception is reported at its boundary.
\* pure: the slot keeps a recording run that started at index 0 a plain playback.
Finish(w0, name, pure) ==
    LET w     == AtSlotBoundary(w0)
        still == pure /\ w.err = "none"
    IN
    /\ w.gif <= MaxGif
    /\ sliderVal' = w.val
    /\ gif' = w.gif
    /\ rendered' = w.rendered
    /\ err' = w.err
    /\ op' = name
    /\ recPure' = still
    /\ recSeen' = IF ~still THEN {} ELSE IF name = "gifSave" THEN w.seen
                  ELSE recSeen \cup w.seen
    /\ recTicks' = IF ~still \/ name = "gifSave" THEN 0
                   ELSE IF name = "tick" THEN recTicks + 1 ELSE recTicks

Init ==
    /\ meshes = <<>>
    /\ meshfiles = <<>>
    /\ v2h = FALSE
    /\ playing = FALSE
    /\ outputGif = FALSE
    /\ sliderMax = SliderDefaultMax
    /\ sliderVal = 0
    /\ layers = <<"Select Layer...">>
    /\ layerIdx = 0
    /\ skip = DefaultSkip
    /\ fps = DefaultFPS
    /\ timerActive = FALSE
    /\ gifOpen = FALSE
    /\ gif = 0
    /\ pc = "idle"
    /\ err = "none"
    /\ op = "init"
    /\ rendered = <<>>
    /\ recPure = FALSE
    /\ recSeen = {}
    /\ recTicks = 0

Scalars == CurrentText(layers, layerIdx)

\* ----- frameSlider moved by the user -----
MoveSlider(v) ==
    /\ pc = "idle"
    /\ v \in 0..sliderMax /\ v # sliderVal
    /\ Finish(SetValue(Work, v, sliderMax, meshes, Scalars), "slider", FALSE)
    /\ UNCHANGED <<meshes, meshfiles, v2h, playing, outputGif, sliderMax, layers, layerIdx,
                   skip, fps, timerActive, gifOpen, pc>>

\* ----- layerSelector.activated -> displayLocal -----
\* a selection that re-applies the height map with the layer picked
SelectLayerRebinds(k) ==
    /\ pc = "idle"
    /\ k \in 0..(Len(layers) - 1)
    /\ layerIdx' = k
    /\ meshes' = IF v2h
                 THEN [i \in 1..Len(meshes) |->
                          [meshes[i] EXCEPT !.z = [src |-> "field",
                                                   field |-> CurrentText(layers, k)]]]
                 ELSE meshes
    /\ Finish(DisplayLocal(Work, meshes', CurrentText(layers, k)), "layer", FALSE)
    /\ UNCHANGED <<meshfiles, v2h, playing, outputGif, sliderMax, layers,
                   skip, fps, timerActive, gifOpen, pc>>

SelectLayer(k) ==
    /\ pc = "idle"
    /\ k \in 0..(Len(layers) - 1)
    /\ layerIdx' = k
    /\ Finish(DisplayLocal(Work, meshes, CurrentText(layers, k)), "layer", FALSE)
    /\ UNCHANGED <<meshes, meshfiles, v2h, playing, outputGif, sliderMax, layers,
                   skip, fps, timerActive, gifOpen, pc>>

\* ----- the spin boxes: no slot is connected -----
SetSkip(s) ==
    /\ pc = "idle"
    /\ s \in 1..MaxSkip /\ s # skip
    /\ skip' = s
    /\ recPure' = FALSE /\ recSeen' = {} /\ recTicks' = 0
    /\ UNCHANGED <<meshes, meshfiles, v2h, playing, outputGif, sliderMax, sliderVal, layers,
                   layerIdx, fps, timerActive, gifOpen, gif, pc, err, op, rendered>>

FPSChoices == {DefaultFPS, 24}

SetFPS(f) ==
    /\ pc = "idle"
    /\ f \in FPSChoices /\ f # fps
    /\ fps' = f
    /\ UNCHANGED <<meshes, meshfiles, v2h, playing, outputGif, sliderMax, sliderVal, layers,
                   layerIdx, skip, timerActive, gifOpen, gif, pc, err, op, rendered,
                   recPure, recSeen, recTicks>>

\* ----- playPause(startFrame) -----
\* playPause without timer.stop()
PlayPauseLeavesTimer(startFrame) ==
    /\ pc = "idle"
    /\ playing' = ~playing
    /\ IF ~playing
       THEN LET w == IF startFrame # NoStartFrame
                     THEN SetValue(Work, startFrame, sliderMax, meshes, Scalars)
                     ELSE Work
            IN /\ timerActive' = TRUE
               /\ Finish(w, "play", recPure /\ w.val = sliderVal)
       ELSE /\ timerActive' = timerActive
            /\ Finish(Work, "pause", recPure)
    /\ UNCHANGED <<meshes, meshfiles, v2h, outputGif, sliderMax, layers, layerIdx,
                   skip, fps, gifOpen, pc>>

PlayPause(startFrame) ==
    /\ pc = "idle"
    /\ playing' = ~playing
    /\ IF ~playing
       THEN LET w == IF startFrame # NoStartFrame
                     THEN SetValue(Work, startFrame, sliderMax, meshes, Scalars)
                     ELSE Work
            IN /\ timerActive' = TRUE
               /\ Finish(w, "play", recPure /\ w.val = sliderVal)
       ELSE /\ timerActive' = FALSE
            /\ Finish(Work, "pause", recPure)
    /\ UNCHANGED <<meshes, meshfiles, v2h, outputGif, sliderMax, layers, layerIdx,
                   skip, fps, gifOpen, pc>>

\* playButton.clicked(checked) -> playPause: the slot takes the signal's argument
PlayButton == PlayPause(ButtonChecked)

\* ----- timer.timeout -> playFrame -----
\* the wrap tested with > in place of >=
NextValOffByOne(val, step, n) == IF val + step > n THEN 0 ELSE val + step

NextVal(val, step, n) == IF val + step >= n THEN 0 ELSE val + step

PlayFrame ==
    LET w1 == DisplayLocal(Work, meshes, Scalars)
    IN IF w1.exc # "none" THEN w1
       ELSE SetValue(w1, NextVal(sliderVal, skip, Len(meshes)), sliderMax, meshes, Scalars)

\* the timer fires in any event loop of the application, a dialog's included
Tick ==
    /\ timerActive /\ pc # "closed"
    /\ Finish(PlayFrame, "tick", recPure)
    /\ UNCHANGED <<meshes, meshfiles, v2h, playing, outputGif, sliderMax, layers, layerIdx,
                   skip, fps, timerActive, gifOpen, pc>>

\* ----- toggleOutputGif -----
\* up to getSaveFileName when turning on, the whole slot when turning off
GifButton ==
    /\ pc = "idle"
    /\ outputGif' = ~outputGif
    /\ IF ~outputGif
       THEN pc' = "saveDialog" /\ gifOpen' = gifOpen /\ Finish(Work, "gifOn", FALSE)
       ELSE pc' = pc /\ gifOpen' = FALSE /\ Finish([Work EXCEPT !.gif = 0], "gifOff", FALSE)
    /\ UNCHANGED <<meshes, meshfiles, v2h, playing, sliderMax, layers, layerIdx,
                   skip, fps, timerActive>>

\* getSaveFileName returns; open_gif(gifname) opens the file or raises
SaveDialogDone(opened) ==
    /\ pc = "saveDialog"
    /\ pc' = "idle"
    /\ gifOpen' = opened
    /\ Finish(IF opened THEN Work ELSE Raise(Work, "OSError"),
              "gifSave", opened /\ meshes # <<>> /\ sliderVal = 0)
    /\ UNCHANGED <<meshes, meshfiles, v2h, playing, outputGif, sliderMax, layers, layerIdx,
                   skip, fps, timerActive>>

\* ----- toggleValToHeights -----
\* turning the height map off puts back the z the file had
ReshapeRestores(ms, z) ==
    [i \in 1..Len(ms) |-> [ms[i] EXCEPT !.z = IF z = ZeroZ THEN OrigZ ELSE z]]

Reshape(ms, z) == [i \in 1..Len(ms) |-> [ms[i] EXCEPT !.z = z]]

\* toggleValToHeights without its first line: the flag flips over no frames too
ValToHeightsUnguarded(w, ms, flag, scal) ==
    IF ms = <<>> THEN [w |-> w, ms |-> ms, v2h |-> ~flag]
    ELSE IF ~flag /\ ~HasLayer(ms[1], scal)
    THEN [w |-> Raise(w, "KeyError"), ms |-> ms, v2h |-> TRUE]
    ELSE LET ms2 == Reshape(ms, IF ~flag THEN FieldZ(scal) ELSE ZeroZ)
         IN [w |-> DisplayLocal(w, ms2, scal), ms |-> ms2, v2h |-> ~flag]

ValToHeights(w, ms, flag, scal) ==
    IF ms = <<>> THEN [w |-> w, ms |-> ms, v2h |-> flag]
    ELSE IF ~flag /\ ~HasLayer(ms[1], scal)
    THEN [w |-> Raise(w, "KeyError"), ms |-> ms, v2h |-> TRUE]
    ELSE LET ms2 == Reshape(ms, IF ~flag THEN FieldZ(scal) ELSE ZeroZ)
         IN [w |-> DisplayLocal(w, ms2, scal), ms |-> ms2, v2h |-> ~flag]

HeightButton ==
    /\ pc = "idle"
    /\ LET h == ValToHeights(Work, meshes, v2h, Scalars)
       IN /\ meshes' = h.ms
          /\ v2h' = h.v2h
          /\ Finish(h.w, "v2h", FALSE)
    /\ UNCHANGED <<meshfiles, playing, outputGif, sliderMax, layers, layerIdx,
                   skip, fps, timerActive, gifOpen, pc>>

\* ----- openLoadDir -----
\* openLoadDir without its first line: the height map stays as it is
OpenLoadDirKeepsHeights ==
    /\ pc = "idle"
    /\ pc' = "loadDialog"
    /\ Finish(Work, "loadOpen", FALSE)
    /\ UNCHANGED <<meshes, v2h, meshfiles, playing, outputGif, sliderMax, layers, layerIdx,
                   skip, fps, timerActive, gifOpen>>

\* up to dialog.exec()
OpenLoadDir ==
    /\ pc = "idle"
    /\ LET h == IF v2h THEN ValToHeights(Work, meshes, v2h, Scalars)
                ELSE [w |-> Work, ms |-> meshes, v2h |-> v2h]
       IN /\ meshes' = h.ms
          /\ v2h' = h.v2h
          /\ pc' = IF h.w.exc = "none" THEN "loadDialog" ELSE "idle"
          /\ Finish(h.w, "loadOpen", FALSE)
    /\ UNCHANGED <<meshfiles, playing, outputGif, sliderMax, layers, layerIdx,
                   skip, fps, timerActive, gifOpen>>

\* a cancel that comes after self.meshes = []
LoadCancelClears ==
    /\ pc = "loadDialog"
    /\ pc' = "idle"
    /\ meshes' = <<>>
    /\ Finish(Work, "loadCancel", FALSE)
    /\ UNCHANGED <<meshfiles, v2h, playing, outputGif, sliderMax, layers,
                   layerIdx, skip, fps, timerActive, gifOpen>>

\* if not dialog.exec(): return
LoadCancel ==
    /\ pc = "loadDialog"
    /\ pc' = "idle"
    /\ Finish(Work, "loadCancel", FALSE)
    /\ UNCHANGED <<meshes, meshfiles, v2h, playing, outputGif, sliderMax, layers,
                   layerIdx, skip, fps, timerActive, gifOpen>>

Names(files) == [i \in 1..Len(files) |-> files[i].name]

\* the loop over self.meshfiles, stopped by the first file pv.read cannot read
ReadAll(w, files) ==
    LET bad    == {i \in 1..Len(files) : ~files[i].ok}
        stop   == IF bad = {} THEN Len(files) + 1
                  ELSE CHOOSE i \in bad : \A j \in bad : i <= j
    IN [w |-> IF stop <= Len(files) THEN Raise(w, "IOError") ELSE w,
        ms |-> [i \in 1..(stop - 1) |-> PvRead(files[i])]]

\* from self.meshes = [] to the end
LoadDir(d) ==
    IF ~d.listable
    THEN [w |-> Raise(Work, "OSError"), ms |-> <<>>, files |-> meshfiles, layers |-> layers,
          layerIdx |-> layerIdx, sliderMax |-> sliderMax]
    ELSE IF \E i \in 1..Len(d.entries) : ~SortKey(d.entries[i]).ok
    THEN [w |-> Raise(Work, "ValueError"), ms |-> <<>>, files |-> meshfiles, layers |-> layers,
          layerIdx |-> layerIdx, sliderMax |-> sliderMax]
    ELSE LET files == Sorted(d.entries)
             r     == ReadAll(Work, files)
         IN IF r.w.exc # "none"
            THEN [w |-> r.w, ms |-> r.ms, files |-> Names(files), layers |-> layers,
                  layerIdx |-> layerIdx, sliderMax |-> sliderMax]
            ELSE IF r.ms = <<>>
            THEN [w |-> Raise(r.w, "IndexError"), ms |-> r.ms, files |-> Names(files),
                  layers |-> <<>>, layerIdx |-> NoIndex, sliderMax |-> sliderMax]
            ELSE LET ls   == r.ms[1].layers
                     li   == IF ls = <<>> THEN NoIndex ELSE 0
                     scal == CurrentText(ls, li)
                     hi   == Len(files) - 1
                     w1   == SetRange(r.w, sliderMax, hi, r.ms, scal)
                     w2   == SetValue(w1, 0, RangeMax(hi), r.ms, scal)
                     w3   == IF w2.exc # "none" THEN w2 ELSE DisplayLocal(w2, r.ms, scal)
                 IN [w |-> w3, ms |-> r.ms, files |-> Names(files), layers |-> ls,
                     layerIdx |-> li, sliderMax |-> RangeMax(hi)]

\* the dialog is accepted with directory d
LoadAccept(d) ==
    /\ pc = "loadDialog"
    /\ pc' = "idle"
    /\ LET l == LoadDir(d)
       IN /\ meshes' = l.ms
          /\ meshfiles' = l.files
          /\ layers' = l.layers
          /\ layerIdx' = l.layerIdx
          /\ sliderMax' = l.sliderMax
          /\ Finish(l.w, "load", FALSE)
    /\ UNCHANGED <<v2h, playing, outputGif, skip, fps, timerActive, gifOpen>>

\* ----- the window is closed: signal_close -> self.plotter.close -----
\* Only the on-screen plotter is closed; the last window gone, qtApp.exec() returns.
Close ==
    /\ pc = "idle"
    /\ pc' = "closed"
    /\ UNCHANGED <<meshes, meshfiles, v2h, playing, outputGif, sliderMax, sliderVal, layers,
                   layerIdx, skip, fps, timerActive, gifOpen, gif, err, op, rendered,
                   recPure, recSeen, recTicks>>

Next ==
    \/ \E v \in 0..MaxFiles : MoveSlider(v)
    \/ \E k \in 0..1 : SelectLayer(k)
    \/ \E s \in 1..MaxSkip : SetSkip(s)
    \/ \E f \in FPSChoices : SetFPS(f)
    \/ PlayButton
    \/ Tick
    \/ GifButton
    \/ \E opened \in BOOLEAN : SaveDialogDone(opened)
    \/ HeightButton
    \/ OpenLoadDir
    \/ LoadCancel
    \/ \E d \in Dirs : LoadAccept(d)
    \/ Close

Spec == Init /\ [][Next]_vars

\* ----- playback alone -----
\* The window while it plays a loaded directory and nothing else happens: n files
\* loaded, the height map in any of its states, Play pressed, the slider dragged
\* to i, a layer picked last.  The only step is the timer's, and the running
\* timer keeps firing.
Heights == {OrigZ, ZeroZ} \cup {FieldZ(CellLayers[j]) : j \in 1..Len(CellLayers)}

InitAdvance ==
    \E n \in 1..MaxFiles, z \in Heights :
      LET d == CHOOSE x \in Dirs : x.path = <<"ok", n>>
          ms == Reshape([i \in 1..n |-> PvRead(Sorted(d.entries)[i])], z)
      IN /\ meshes = ms
         /\ meshfiles = Names(Sorted(d.entries))
         /\ v2h = (z.src = "field")
         /\ playing = TRUE
         /\ timerActive = TRUE
         /\ outputGif = FALSE /\ gifOpen = FALSE /\ gif = 0
         /\ sliderMax = n - 1
         /\ sliderVal \in 0..(n - 1)
         /\ layers = CellLayers
         /\ layerIdx \in 0..(Len(CellLayers) - 1)
         /\ skip \in 1..MaxSkip
         /\ fps \in FPSChoices
         /\ pc = "idle"
         /\ err = "none"
         /\ op = "layer"
         /\ rendered = <<Shown(ms[sliderVal + 1], CurrentText(layers, layerIdx))>>
         /\ recPure = FALSE /\ recSeen = {} /\ recTicks = 0

NextAdvance == Tick

SpecAdvance == InitAdvance /\ [][NextAdvance]_vars /\ WF_vars(NextAdvance)

\* ===== claims =====
N == Len(meshes)

\* C1: in every reachable state the frame sequence is empty or the slider value
\* is a valid index, 0 <= sliderVal < Len(meshes).
C1_IndexValidOrEmpty == meshes = <<>> \/ (0 <= sliderVal /\ sliderVal < N)

\* C2: a load that stops on a file that cannot be read or sorted leaves the
\* frame sequence and the current index as they were when the load started.
LoadStep == pc = "loadDialog" /\ op' = "load" /\ pc' = "idle"
C2_FailedLoadKeepsSequence ==
    [][(LoadStep /\ err' \in {"OSError", "ValueError", "IOError"})
         => (meshes' = meshes /\ sliderVal' = sliderVal)]_vars

\* C3: after any load the playing flag is false and the timer is disarmed.
C3_LoadStopsPlayback == (op = "load") => (~playing /\ ~timerActive)

\* C4: recording enabled at index 0 over N >= 1 frames, then plain playback that
\* has displayed every frame in at most N ticks: when recording is disabled the
\* recorder has written exactly N frames.
C4_OneFramePerDisplayed ==
    [][(outputGif /\ op' = "gifOff" /\ ~outputGif' /\ recPure /\ N >= 1
          /\ recSeen = 0..(N - 1) /\ recTicks <= N)
         => gif = N]_vars

\* C5: a timer tick over a non-empty sequence renders the current frame and
\* moves the index to sliderVal + skip when that is below N, to 0 otherwise.
C5_TickRendersAndAdvances ==
    [][(Tick /\ meshes # <<>>)
         => /\ sliderVal < N
            /\ rendered' # <<>>
            /\ rendered'[1].file = meshes[sliderVal + 1].file
            /\ sliderVal' = IF sliderVal + skip < N THEN sliderVal + skip ELSE 0]_vars

\* C6 as stated: every advance takes the index to (sliderVal + skip) mod N.
C6_VisitsMultiplesModN ==
    [][Tick => sliderVal' = (sliderVal + skip) % N]_vars

\* C6 amended: every advance takes the index to sliderVal + skip when that is
\* below N and to 0 otherwise; the index is always within 0..N-1; playback
\* returns to index 0 again and again.
C6_ClampWrapCycle ==
    /\ [](meshes # <<>> /\ 0 <= sliderVal /\ sliderVal < N)
    /\ [][Tick => sliderVal' = IF sliderVal + skip < N THEN sliderVal + skip ELSE 0]_vars
    /\ []<>(sliderVal = 0)

\* a tick that wrapped from the last index with a step that overshoots N
C6_Witness ==
    /\ op = "tick" /\ err = "none" /\ N >= 2 /\ skip >= 2
    /\ Len(rendered) = 2 /\ rendered[1].file = meshes[N].file
    /\ sliderVal = 0 /\ (N - 1 + skip) % N # 0

\* C7: a timer tick over an empty sequence renders nothing, raises nothing and
\* changes no variable of the window.
C7_EmptyTickIsNoOp ==
    [][(Tick /\ meshes = <<>>)
         => /\ rendered' = <<>> /\ err' = "none"
            /\ UNCHANGED <<meshes, meshfiles, v2h, playing, outputGif, sliderMax, sliderVal,
                           layers, layerIdx, skip, fps, timerActive, gifOpen, gif, pc>>]_vars

\* C8: no slot ever raises IndexError.
C8_NoIndexError == err # "IndexError"

\* C9: after a load the selected field is none of the loaded mesh's field names.
C9_SentinelAfterLoad ==
    (op = "load" /\ err = "none") => ~HasLayer(meshes[1], Scalars)

\* C10: a load that completes resets the index to 0 and leaves the height map
\* off; from the click on "Load Directory" to the end of the load the playing
\* flag, the timer, the step size, the rate and the recording state keep their
\* values.
C10_CompletedLoadFrame ==
    [][/\ (LoadStep /\ err' = "none") => (sliderVal' = 0 /\ ~v2h')
       /\ (pc = "loadDialog" \/ pc' = "loadDialog")
            => UNCHANGED <<playing, timerActive, skip, fps, outputGif, gifOpen>>]_vars

C10_Witness ==
    /\ op = "load" /\ err = "none" /\ pc = "idle"
    /\ playing /\ outputGif /\ gifOpen /\ skip = MaxSkip /\ fps # DefaultFPS
    /\ N = MaxFiles /\ sliderVal = 0 /\ ~v2h /\ Len(rendered) >= 1

\* a directory that can be listed, with at least one file, every file named by
\* a number and readable
ValidDir(d) ==
    /\ d.listable /\ Len(d.entries) >= 1
    /\ \A i \in 1..Len(d.entries) : d.entries[i].ok /\ SortKey(d.entries[i]).ok

StemValue(name) == PyFloat(SplitExtRoot(name)).val

\* C11: loading a directory of N >= 1 valid mesh files leaves exactly N frames,
\* one per file, in ascending order of the number in the file name, and the
\* layer selector holds the first frame's cell layers in the mesh's order and
\* nothing else (no item of an earlier load, no "Select Layer...").
C11_LoadedFramesAndFields ==
    [][\A d \in Dirs : (LoadAccept(d) /\ ValidDir(d)) =>
          /\ Len(meshes') = Len(d.entries)
          /\ \A i \in 1..Len(d.entries) :
                \E j \in 1..Len(meshes') : meshes'[j].file = d.entries[i].name
          /\ \A i, j \in 1..Len(meshes') :
                i < j => StemValue(meshes'[i].file) < StemValue(meshes'[j].file)
          /\ meshfiles' = [i \in 1..Len(meshes') |-> meshes'[i].file]
          /\ layers' = meshes'[1].layers
          /\ layers' = (CHOOSE f \in {d.entries[i] : i \in 1..Len(d.entries)} :
                           \A i \in 1..Len(d.entries) :
                               SortKey(f).val <= SortKey(d.entries[i]).val).layers]_vars

\* a load of MaxFiles files listed in another order than the numeric one
C11_Witness ==
    /\ op = "load" /\ pc = "idle" /\ N = MaxFiles /\ N >= 2
    /\ meshes[1].file = FileName(1) /\ meshes[N].file = FileName(N)
    /\ meshfiles = [i \in 1..N |-> FileName(i)]
    /\ layers = CellLayers /\ layers = meshes[1].layers

\* C12: outside the save dialog the recorder has a GIF open exactly when
\* outputGif is true, and none is open once the window is closed.
C12_TargetOpenIffRecording ==
    /\ pc \in {"idle", "loadDialog"} => (outputGif <=> gifOpen)
    /\ pc = "closed" => ~gifOpen

\* C13: when open_gif raises, outputGif is false once the slot has returned.
C13_OpenFailureDisablesRecording ==
    (op = "gifSave" /\ err # "none") => ~outputGif

\* C14: with frames loaded and the height map on, the height-map button turns
\* the flag off and leaves every frame's z at 0, whatever the z was before
\* (the file's own, or a layer's values) and whatever layer is selected.
C14_OnThenOffZeroesZ ==
    [][(HeightButton /\ v2h /\ meshes # <<>>) =>
          /\ ~v2h'
          /\ Len(meshes') = Len(meshes)
          /\ \A i \in 1..Len(meshes') : meshes'[i].z = ZeroZ]_vars

\* the height map was on over a layer's values and has just been turned off
C14_Witness ==
    /\ op = "v2h" /\ err = "none" /\ ~v2h /\ N = MaxFiles
    /\ \A i \in 1..N : meshes[i].z = ZeroZ
    /\ rendered # <<>> /\ rendered[1].z = ZeroZ

\* C15: while the height map is on, picking a layer leaves every frame's
\* geometry as it is and renders the current frame shaded by the new layer over
\* the old geometry; as long as the flag stays on no step changes the geometry.
C15_SelectionOnlyShades ==
    [][/\ \A k \in 0..(Len(layers) - 1) : (SelectLayer(k) /\ v2h) =>
             /\ meshes' = meshes /\ v2h'
             /\ rendered' # <<>> =>
                   /\ rendered'[1].scalars = CurrentText(layers, k)
                   /\ rendered'[1].z = meshes[sliderVal + 1].z
       /\ (v2h /\ v2h') => meshes' = meshes]_vars

\* heights taken from the first layer, the second layer picked afterwards
C15_Witness ==
    /\ op = "layer" /\ err = "none" /\ v2h /\ N >= 1
    /\ \A i \in 1..N : meshes[i].z = FieldZ(CellLayers[1])
    /\ Scalars = CellLayers[2]
    /\ rendered = <<Shown(meshes[sliderVal + 1], CellLayers[2])>>

\* C16: pressing Play while stopped leaves the slider value as it was.
C16_PlayKeepsIndex ==
    [][(PlayButton /\ ~playing) => sliderVal' = sliderVal]_vars

\* C17: the timer is active exactly when playing is true; the play button flips
\* the flag and starts or stops the timer with it, and no other step changes
\* either of them.
C17_TimerIffPlaying ==
    /\ [](playing <=> timerActive)
    /\ [][IF PlayButton
          THEN playing' = ~playing /\ timerActive' = playing'
          ELSE UNCHANGED <<playing, timerActive>>]_vars

\* playback stopped again over a loaded directory
C17_Witness ==
    /\ op = "pause" /\ ~playing /\ ~timerActive /\ N >= 1 /\ pc = "idle"

\* C18: the height map is on only over a non-empty frame sequence; the
\* height-map button over no frames changes neither the flag nor the frames;
\* the directory dialog is only ever open, and a directory only ever read, with
\* the height map off.
C18_HeightsImplyFrames ==
    /\ [](v2h => meshes # <<>>)
    /\ [](pc = "loadDialog" => ~v2h)
    /\ [][(HeightButton /\ meshes = <<>>) => UNCHANGED <<v2h, meshes>>]_vars
    /\ [][LoadStep => (~v2h /\ ~v2h')]_vars

\* "Load Directory" clicked with the height map on: it is off in the dialog
C18_Witness ==
    /\ op = "loadOpen" /\ pc = "loadDialog" /\ ~v2h /\ N >= 1
    /\ rendered # <<>> /\ rendered[1].z = ZeroZ
    /\ \A i \in 1..N : meshes[i].z = ZeroZ

\* C19: the two steps of a cancelled load, the click on "Load Directory" and
\* the dialog's rejection, leave the frames' files and layers, the slider, the
\* layer selector, the playing flag, the timer and the recorder as they are;
\* the click turns the height map off and, if it was on, sets every frame's z
\* to 0; the rejection changes nothing.
C19_CancelledLoadFrame ==
    [][/\ (OpenLoadDir /\ pc' = "loadDialog") =>
             /\ ~v2h'
             /\ Len(meshes') = Len(meshes)
             /\ \A i \in 1..Len(meshes) :
                   /\ meshes'[i].file = meshes[i].file
                   /\ meshes'[i].layers = meshes[i].layers
                   /\ meshes'[i].z = IF v2h THEN ZeroZ ELSE meshes[i].z
             /\ UNCHANGED <<meshfiles, sliderMax, sliderVal, layers, layerIdx,
                            playing, timerActive, outputGif, gifOpen>>
       /\ LoadCancel =>
             UNCHANGED <<meshes, meshfiles, v2h, sliderMax, sliderVal, layers, layerIdx,
                         playing, timerActive, outputGif, gifOpen, gif>>]_vars

\* a load cancelled while playing and recording, the height map on before it
C19_Witness ==
    /\ op = "loadCancel" /\ pc = "idle" /\ ~v2h /\ N = MaxFiles
    /\ \A i \in 1..N : meshes[i].z = ZeroZ
    /\ playing /\ outputGif /\ gifOpen /\ sliderVal > 0

====
